---------------------------- MODULE Spec2Model ----------------------------
(***************************************************************************)
(* A model of the weixin-openapi client core: the memory token store, the  *)
(* token manager (getAccessToken / getStableAccessToken), the transport    *)
(* (fetcher.request), the error classifier (createError) and the request   *)
(* client (#request / #raw) with its single retry on errcode 40001.        *)
(*                                                                         *)
(* Strings the code inspects character-wise are sequences of fragments in  *)
(* which every inspected character (the first character of a path, the     *)
(* last character of a message, the characters of the secret) is a         *)
(* fragment of its own.                                                    *)
(*                                                                         *)
(* Scheduling: JavaScript runs every continuation to its next await; the   *)
(* store is touched only inside setImmediate callbacks and the remote only *)
(* answers at an await.  One action is one such callback or answer plus    *)
(* the continuation of the awaiting caller up to its next await.           *)
(***************************************************************************)
EXTENDS Integers, Sequences, FiniteSets, TLC

VARIABLES store, now, task, started, clients, probe

vars == <<store, now, task, started, clients, probe>>

-----------------------------------------------------------------------------
(* Bounds of the model *)

\* seconds the clock may advance
MaxTime == 1
\* operations started in one behaviour
MaxOps == 2

\* callers running concurrently on one client and one store: "req" calls
\* get, post, getRaw and postRaw, "tok" calls getAccessToken and
\* getStableAccessToken
Procs == {"req", "tok"}

\* access tokens the remote may issue (it may re-issue the same string)
Tokens == {"t1", "t2"}
\* expires_in values the remote may answer with
ExpiresIn == {10, 11}
\* paths a caller may pass
Paths == {<<"/", "x">>, <<"x">>}

-----------------------------------------------------------------------------
(* Program constants *)

\* `ttl * 1000`: the store keeps expiresAt in milliseconds
MsPerSecond == 1000
\* `data.expires_in - 10`
TtlMargin == 10
\* `data.errcode === 40001`
InvalidCredential == 40001
\* secret.slice(0, 6)
SecretPrefixLen == 6

Appid == <<"appid">>
Secret == <<"s", "e", "c", "r", "e", "t", "7", "8">>

\* secrets of further clients constructed with the same appid
OtherSecrets == {<<"s", "e", "c", "r", "e", "t", "9", "9">>,
                 <<"s", "e", "c", "r", "e", "x", "7", "8">>}
Secrets == {Secret} \cup OtherSecrets

Min(a, b) == IF a < b THEN a ELSE b
Max(a, b) == IF a > b THEN a ELSE b

\* String.prototype.slice(start, end) for start >= 0
Slice(s, start, end) ==
    LET e == IF end < 0 THEN Max(Len(s) + end, 0) ELSE Min(end, Len(s))
    IN  SubSeq(s, start + 1, e)

\* String.prototype.startsWith
StartsWith(s, prefix) ==
    /\ Len(s) >= Len(prefix)
    /\ SubSeq(s, 1, Len(prefix)) = prefix

-----------------------------------------------------------------------------
(* Error classifier *)

NoPhrase == <<>>

authcodeErrorMap(errcode) ==
    CASE errcode = 40029 -> <<"invalid code">>
      [] errcode = 40163 -> <<"code has been used">>
      [] errcode = 42003 -> <<"code has expired">>
      [] OTHER -> NoPhrase

\* formatMessage that never strips the final '.' of the title
formatMessage_KeepsDot(title, detail) == title \o <<": ">> \o detail

formatMessage(title, detail) ==
    IF title # <<>> /\ title[Len(title)] = "."
    THEN Slice(title, 0, -1) \o <<": ">> \o detail \o <<".">>
    ELSE title \o <<": ">> \o detail

\* response.errcode is undefined when the payload has no errcode
ErrcodeOf(response) ==
    IF "errcode" \in DOMAIN response THEN response.errcode ELSE -1

\* a WeixinError that loses the response
WeixinError_NoResponse(message, response) ==
    [name |-> "WeixinError", message |-> message, response |-> [none |-> TRUE]]

WeixinError(message, response) ==
    [name |-> "WeixinError", message |-> message, response |-> response]

WeixinAuthCodeError(message, response) ==
    [name |-> "WeixinAuthCodeError", message |-> message, response |-> response]

\* WeixinError.toJSON
toJSON(e) == [name |-> e.name, message |-> e.message, response |-> e.response]

\* createError without the authorization-code table
createError_NoAuthCode(message, response) == WeixinError(message, response)

createError(message, response) ==
    LET authCodeMessage == authcodeErrorMap(ErrcodeOf(response))
    IN  IF authCodeMessage # NoPhrase
        THEN WeixinAuthCodeError(formatMessage(message, authCodeMessage), response)
        ELSE WeixinError(message, response)

-----------------------------------------------------------------------------
(* Cache keys *)

\* compositeKey without the kind discriminator
compositeKey_NoKind(appid, secret, stable) ==
    appid \o <<":">> \o Slice(secret, 0, SecretPrefixLen)

compositeKey(appid, secret, stable) ==
    appid \o <<":">> \o Slice(secret, 0, SecretPrefixLen)
          \o (IF stable THEN <<":stable">> ELSE <<>>)

StdKey == compositeKey(Appid, Slice(Secret, 0, SecretPrefixLen), FALSE)
StableKey == compositeKey(Appid, Slice(Secret, 0, SecretPrefixLen), TRUE)
\* the keys the clients of one appid may compute
Keys ==
    {compositeKey(Appid, Slice(s, 0, SecretPrefixLen), stable) :
        s \in Secrets, stable \in BOOLEAN}

-----------------------------------------------------------------------------
(* Memory token store: tokens[key] is undefined or {data, expiresAt} *)

NoEntry == [present |-> FALSE]

Entry(token, expiresAt) ==
    [present |-> TRUE, data |-> token, expiresAt |-> expiresAt]

\* #getTokenData with the expiry test inverted
GetTokenData_InvertedExpiry(s, key, t) ==
    IF ~s[key].present THEN NoEntry
    ELSE IF s[key].expiresAt > t THEN NoEntry
    ELSE s[key]

\* #getTokenData that still serves an entry at the instant it expires
GetTokenData_StrictExpiry(s, key, t) ==
    IF ~s[key].present THEN NoEntry
    ELSE IF s[key].expiresAt < t THEN NoEntry
    ELSE s[key]

\* #getTokenData: the value read, null being NoEntry
GetTokenData(s, key, t) ==
    IF ~s[key].present THEN NoEntry
    ELSE IF s[key].expiresAt <= t THEN NoEntry
    ELSE s[key]

\* #getTokenData that leaves an expired entry in place
StoreAfterGet_KeepsExpired(s, key, t) == s

\* #getTokenData that destroys the entry it reads, expired or not
StoreAfterGet_EvictsAlways(s, key, t) == [s EXCEPT ![key] = NoEntry]

\* #getTokenData: the store after the read (an expired entry is destroyed)
StoreAfterGet(s, key, t) ==
    IF s[key].present /\ s[key].expiresAt <= t
    THEN [s EXCEPT ![key] = NoEntry]
    ELSE s

\* set that keeps the entry a key already has (first writer wins)
StoreSet_KeepsExisting(s, key, token, ttl, t) ==
    IF s[key].present THEN s
    ELSE [s EXCEPT ![key] = Entry(token, t + ttl * MsPerSecond)]

\* set that takes the ttl for milliseconds
StoreSet_TtlAsMs(s, key, token, ttl, t) ==
    [s EXCEPT ![key] = Entry(token, t + ttl)]

StoreSet(s, key, token, ttl, t) ==
    [s EXCEPT ![key] = Entry(token, t + ttl * MsPerSecond)]

\* delete that removes nothing
StoreDelete_Noop(s, key) == s

\* delete that clears the store
StoreDelete_All(s, key) == [k \in DOMAIN s |-> NoEntry]

StoreDelete(s, key) == [s EXCEPT ![key] = NoEntry]

-----------------------------------------------------------------------------
(* Remote API *)

NoResponse == [none |-> TRUE]

ErrMsg(errcode) ==
    CASE errcode = 0 -> "ok"
      [] errcode = 40001 -> "invalid credential"
      [] errcode = 40029 -> "invalid code"
      [] errcode = 40125 -> "invalid appsecret"
      [] errcode = 40163 -> "code been used"
      [] errcode = 45009 -> "reach max api daily quota limit"
      [] OTHER -> "error"

ErrorResponse(errcode) == [errcode |-> errcode, errmsg |-> ErrMsg(errcode)]

\* errcodes the remote may put in the body of a data response
DataErrCodes == {0, 40001, 45009, 40029}
\* errcodes the remote may answer a token creation with
CreateErrCodes == {40001, 40163}

\* a success payload carries no errcode
SuccessPayload == [list |-> "summary"]

JsonPayloads == {SuccessPayload} \cup {ErrorResponse(c) : c \in DataErrCodes}

\* a response body: JSON text of a payload, or bytes that are no JSON
Bodies == {[json |-> TRUE, value |-> j] : j \in JsonPayloads}
              \cup {[json |-> FALSE, value |-> [bytes |-> "abc"]]}

\* headers.get('content-type'): null is the empty string here
NoHeader == <<>>
ContentTypes == {<<"application/json", "; charset=utf-8">>, <<"image/jpeg">>,
                 NoHeader}

\* a body whose JSON payload carries a non-zero errcode
ErrorBodies ==
    {[json |-> TRUE, value |-> ErrorResponse(c)] : c \in DataErrCodes \ {0}}

\* the remote answers with HTTP 200, protocol errors included; an error
\* payload may also come with an HTTP error status
DataResponses ==
    [status : {200}, ctype : ContentTypes, body : Bodies]
        \cup [status : {400}, ctype : ContentTypes, body : ErrorBodies]

AccessTokenResponses ==
    [access_token : Tokens, expires_in : ExpiresIn]
        \cup {ErrorResponse(c) : c \in CreateErrCodes}

-----------------------------------------------------------------------------
(* Transport: fetcher.request up to its fetch *)

PathError ==
    [name |-> "Error", message |-> <<"Path must start with '/'">>,
     response |-> NoResponse]

NoCall == [none |-> TRUE]

\* fetcher.request without the test of path[0]
FetcherRequest_NoCheck(method, path, accessToken) ==
    [ok |-> TRUE,
     call |-> [method |-> method, path |-> path,
               access_token |-> accessToken,
               params |-> IF method = "GET" THEN "query" ELSE "body"]]

\* the network call fetcher.request makes, or the error it throws before it
FetcherRequest(method, path, accessToken) ==
    IF path = <<>> \/ path[1] # "/"
    THEN [ok |-> FALSE, error |-> PathError]
    ELSE [ok |-> TRUE,
          call |-> [method |-> method, path |-> path,
                    access_token |-> accessToken,
                    params |-> IF method = "GET" THEN "query" ELSE "body"]]

\* the accessToken argument of a call made without token
NoToken == "null"

\* fetcher.createAccessToken: the call it makes
createAccessToken(appid, secret) ==
    [request |-> FetcherRequest("GET", <<"/", "cgi-bin/token">>, NoToken).call,
     args |-> [appid |-> appid, secret |-> secret,
               grant_type |-> "client_credential"]]

\* fetcher.createStableAccessToken: the call it makes
createStableAccessToken(appid, secret, forceRefresh) ==
    [request |-> FetcherRequest("POST", <<"/", "cgi-bin/stable_token">>,
                                NoToken).call,
     args |-> [appid |-> appid, secret |-> secret,
               grant_type |-> "client_credential",
               force_refresh |-> forceRefresh]]

-----------------------------------------------------------------------------
(* Request client: what #request and #raw do with a response *)

RequestOps == {"get", "post", "getRaw", "postRaw"}
TokenOps == {"getAccessToken", "getStableAccessToken"}

MethodOf(op) == IF op \in {"get", "getRaw"} THEN "GET" ELSE "POST"
IsRaw(op) == op \in {"getRaw", "postRaw"}

RequestFailed(path) == <<"Request to '">> \o path \o <<"' is failed", ".">>

SyntaxError ==
    [name |-> "SyntaxError", message |-> <<"Unexpected token">>,
     response |-> NoResponse]

\* #request taking every payload with an errcode, 0 included, for a failure
ClassifyJson_ZeroIsFailure(isRetry, path, res) ==
    IF ~res.body.json THEN [act |-> "throw", value |-> SyntaxError]
    ELSE LET data == res.body.value
         IN  IF "errcode" \in DOMAIN data
             THEN IF ~isRetry /\ data.errcode = InvalidCredential
                  THEN [act |-> "refresh", value |-> data]
                  ELSE [act |-> "throw",
                        value |-> createError(RequestFailed(path), data)]
             ELSE [act |-> "return", value |-> data]

\* #request with the errcode test inverted
ClassifyJson_InvertedTest(isRetry, path, res) ==
    IF ~res.body.json THEN [act |-> "throw", value |-> SyntaxError]
    ELSE LET data == res.body.value
         IN  IF "errcode" \in DOMAIN data /\ data.errcode = 0
             THEN [act |-> "throw",
                   value |-> createError(RequestFailed(path), data)]
             ELSE [act |-> "return", value |-> data]

\* #request retrying on 40001 without looking at isRetry
ClassifyJson_RetryAlways(isRetry, path, res) ==
    IF ~res.body.json THEN [act |-> "throw", value |-> SyntaxError]
    ELSE LET data == res.body.value
         IN  IF "errcode" \in DOMAIN data /\ data.errcode # 0
             THEN IF data.errcode = InvalidCredential
                  THEN [act |-> "refresh", value |-> data]
                  ELSE [act |-> "throw",
                        value |-> createError(RequestFailed(path), data)]
             ELSE [act |-> "return", value |-> data]

\* #request, lines 79-90: res.json(), then the errcode test
ClassifyJson(isRetry, path, res) ==
    IF ~res.body.json THEN [act |-> "throw", value |-> SyntaxError]
    ELSE LET data == res.body.value
         IN  IF "errcode" \in DOMAIN data /\ data.errcode # 0
             THEN IF ~isRetry /\ data.errcode = InvalidCredential
                  THEN [act |-> "refresh", value |-> data]
                  ELSE [act |-> "throw",
                        value |-> createError(RequestFailed(path), data)]
             ELSE [act |-> "return", value |-> data]

\* #raw retrying on 40001 without looking at isRetry
ClassifyRaw_RetryAlways(isRetry, path, res) ==
    IF StartsWith(res.ctype, <<"application/json">>)
    THEN IF ~res.body.json THEN [act |-> "throw", value |-> SyntaxError]
         ELSE LET data == res.body.value
              IN  IF ErrcodeOf(data) = InvalidCredential
                  THEN [act |-> "refresh", value |-> data]
                  ELSE [act |-> "throw",
                        value |-> createError(RequestFailed(path), data)]
    ELSE [act |-> "return", value |-> res]

\* #raw parsing every body, whatever the content-type
ClassifyRaw_ParsesAlways(isRetry, path, res) ==
    IF ~res.body.json THEN [act |-> "throw", value |-> SyntaxError]
    ELSE LET data == res.body.value
         IN  IF ~isRetry /\ ErrcodeOf(data) = InvalidCredential
             THEN [act |-> "refresh", value |-> data]
             ELSE [act |-> "throw",
                   value |-> createError(RequestFailed(path), data)]

\* #raw, lines 107-117: the content-type test, then res.json()
ClassifyRaw(isRetry, path, res) ==
    IF StartsWith(res.ctype, <<"application/json">>)
    THEN IF ~res.body.json THEN [act |-> "throw", value |-> SyntaxError]
         ELSE LET data == res.body.value
              IN  IF ~isRetry /\ ErrcodeOf(data) = InvalidCredential
                  THEN [act |-> "refresh", value |-> data]
                  ELSE [act |-> "throw",
                        value |-> createError(RequestFailed(path), data)]
    ELSE [act |-> "return", value |-> res]

Classify(op, isRetry, path, res) ==
    IF IsRaw(op) THEN ClassifyRaw(isRetry, path, res)
    ELSE ClassifyJson(isRetry, path, res)

-----------------------------------------------------------------------------
(* Callers.  task[p] is the frame of the operation p runs:                 *)
(*   op       the client method called, "none" when p runs nothing         *)
(*   secret   #options.secret of the client the method is called on        *)
(*   pc       the await the operation is suspended at                      *)
(*   isRetry  the isRetry parameter of the running #request / #raw         *)
(*   force    the forceRefresh parameter of the running token manager call *)
(*   data     the token-creation response held across `await store.set`    *)
(*   call     the data call in flight                                      *)
(*   create   the token-creation call in flight                            *)
(*   result   what the operation returned or threw                         *)
(* and, for the properties, what the operation has done so far:            *)
(*   nTM      token manager invocations                                    *)
(*   nCreate  token-creation calls issued                                  *)
(*   nData    data calls issued                                            *)
(*   nForced  forced refreshes started                                     *)
(*   reads    outcome of each non-forced cache read, in order              *)
(*   last     the data response that ended the operation                   *)
(*   refreshed  the creation response of the forced refresh, while the     *)
(*              retried attempt runs                                       *)

NoData == [none |-> TRUE]
NoResult == [kind |-> "none"]
Returned(v) == [kind |-> "returned", value |-> v]
Thrown(e) == [kind |-> "thrown", error |-> e]

Idle ==
    [op |-> "none", secret |-> <<>>, path |-> <<>>, pc |-> "idle",
     isRetry |-> FALSE,
     force |-> FALSE, data |-> NoData, call |-> NoCall, create |-> NoCall,
     result |-> NoResult,
     nTM |-> 0, nCreate |-> 0, nData |-> 0, nForced |-> 0, reads |-> <<>>,
     last |-> NoResponse, refreshed |-> NoData]

\* the operations a caller may start
OpsOf(p) == IF p = "req" THEN RequestOps ELSE TokenOps

\* getAccessToken line 127, getStableAccessToken line 154
\* the stable token kept under the standard key
KeyOf_IgnoresKind(t) ==
    compositeKey(Appid, Slice(t.secret, 0, SecretPrefixLen), FALSE)

KeyOf(t) ==
    compositeKey(Appid, Slice(t.secret, 0, SecretPrefixLen),
                 t.op = "getStableAccessToken")

\* one context message for both token kinds
TokenFailed_OneMessage(t) == <<"Unable to get an access token", ".">>

TokenFailed(t) ==
    IF t.op = "getStableAccessToken"
    THEN <<"Unable to get a stable access token", ".">>
    ELSE <<"Unable to get an access token", ".">>

\* the operation ends
Finished(t, result) ==
    [t EXCEPT !.pc = "done", !.result = result, !.data = NoData,
              !.call = NoCall, !.create = NoCall, !.force = FALSE,
              !.refreshed = NoData]

\* getAccessToken is entered: its store.delete or store.get is scheduled
EnterTokenManager(t, forceRefresh) ==
    [t EXCEPT !.pc = IF forceRefresh THEN "tm_delete" ELSE "tm_get",
              !.force = forceRefresh, !.nTM = @ + 1,
              !.nForced = IF forceRefresh THEN @ + 1 ELSE @,
              !.data = NoData, !.call = NoCall]

\* the token manager returned accessToken to the operation awaiting it
OnToken(t, accessToken) ==
    IF t.op \in TokenOps THEN Finished(t, Returned(accessToken))
    ELSE IF t.force
    THEN \* lines 83-84, 110-111: the forced refresh is over, the request is
         \* re-issued with isRetry = true
         EnterTokenManager([t EXCEPT !.isRetry = TRUE, !.refreshed = t.data],
                           FALSE)
    ELSE \* lines 77-78, 104-105
         LET r == FetcherRequest(MethodOf(t.op), t.path, accessToken)
         IN  IF r.ok
             THEN [t EXCEPT !.pc = "data", !.call = r.call, !.nData = @ + 1,
                            !.data = NoData, !.force = FALSE]
             ELSE Finished(t, Thrown(r.error))

\* lines 136 / 163: the creation primitive is called
CallCreate(t) ==
    [t EXCEPT !.pc = "tm_create", !.nCreate = @ + 1,
              !.create = IF t.op = "getStableAccessToken"
                         THEN createStableAccessToken(Appid, t.secret, t.force)
                         ELSE createAccessToken(Appid, t.secret)]

\* no pure function is being applied
NoProbe == [fn |-> "none"]

-----------------------------------------------------------------------------
(* Actions *)

Init ==
    /\ store = [k \in Keys |-> NoEntry]
    /\ now = 0
    /\ task = [p \in Procs |-> Idle]
    /\ started = 0
    /\ clients = {Secret}
    /\ probe = NoProbe

\* a caller calls get, post, getRaw or postRaw
StartRequest(p) ==
    /\ task[p].pc = "idle"
    /\ started < MaxOps
    /\ \E op \in OpsOf(p) \cap RequestOps, path \in Paths, secret \in clients :
          task' = [task EXCEPT ![p] =
                      EnterTokenManager([Idle EXCEPT !.op = op, !.path = path,
                                                     !.secret = secret],
                                        FALSE)]
    /\ started' = started + 1
    /\ UNCHANGED <<clients, probe, store, now>>

\* a caller calls getAccessToken(forceRefresh) or getStableAccessToken(forceRefresh)
StartToken(p) ==
    /\ task[p].pc = "idle"
    /\ started < MaxOps
    /\ \E op \in OpsOf(p) \cap TokenOps, forceRefresh \in BOOLEAN,
          secret \in clients :
          task' = [task EXCEPT ![p] =
                      EnterTokenManager([Idle EXCEPT !.op = op,
                                                     !.secret = secret],
                                        forceRefresh)]
    /\ started' = started + 1
    /\ UNCHANGED <<clients, probe, store, now>>

\* store.get runs; lines 132-133, then 136 on a miss
TmGet(p) ==
    LET t == task[p]
        cachedToken == GetTokenData(store, KeyOf(t), now)
    IN  /\ t.pc = "tm_get"
        /\ store' = StoreAfterGet(store, KeyOf(t), now)
        /\ task' = [task EXCEPT ![p] =
              IF cachedToken.present
              THEN OnToken([t EXCEPT !.reads = Append(@, "hit")],
                           cachedToken.data.access_token)
              ELSE CallCreate([t EXCEPT !.reads = Append(@, "miss")])]
        /\ UNCHANGED <<clients, probe, now, started>>

\* store.delete runs; line 130, then 136
TmDelete(p) ==
    LET t == task[p]
    IN  /\ t.pc = "tm_delete"
        /\ store' = StoreDelete(store, KeyOf(t))
        /\ task' = [task EXCEPT ![p] = CallCreate(t)]
        /\ UNCHANGED <<clients, probe, now, started>>

\* the remote answers the token creation; lines 137-140 and 144
TmCreated(p) ==
    LET t == task[p]
    IN  /\ t.pc = "tm_create"
        /\ \E data \in AccessTokenResponses :
              task' = [task EXCEPT ![p] =
                  IF "access_token" \in DOMAIN data
                  THEN [t EXCEPT !.pc = "tm_set", !.data = data,
                                 !.create = NoCall]
                  ELSE Finished(t, Thrown(createError(TokenFailed(t), data)))]
        /\ UNCHANGED <<clients, probe, store, now, started>>

\* store.set runs; lines 138-141
TmSet(p) ==
    LET t == task[p]
        access_token == t.data.access_token
        ttl == t.data.expires_in - TtlMargin
    IN  /\ t.pc = "tm_set"
        /\ store' = StoreSet(store, KeyOf(t), [access_token |-> access_token],
                             ttl, now)
        /\ task' = [task EXCEPT ![p] = OnToken(t, access_token)]
        /\ UNCHANGED <<clients, probe, now, started>>

\* the remote answers the data call; lines 79-90 and 107-117
DataResponse(p) ==
    LET t == task[p]
    IN  /\ t.pc = "data"
        /\ \E res \in DataResponses :
              LET c == Classify(t.op, t.isRetry, t.path, res)
                  u == [t EXCEPT !.last = res]
              IN  task' = [task EXCEPT ![p] =
                      CASE c.act = "return" -> Finished(u, Returned(c.value))
                        [] c.act = "throw" -> Finished(u, Thrown(c.value))
                        [] c.act = "refresh" -> EnterTokenManager(t, TRUE)]
        /\ UNCHANGED <<clients, probe, store, now, started>>

\* the caller takes the outcome
Finish(p) ==
    /\ task[p].pc = "done"
    /\ task' = [task EXCEPT ![p] = Idle]
    /\ UNCHANGED <<clients, probe, store, now, started>>

\* a second passes
Tick ==
    /\ now < MaxTime * MsPerSecond
    /\ now' = now + MsPerSecond
    /\ UNCHANGED <<clients, probe, store, task, started>>

Next ==
    \/ \E p \in Procs :
          \/ StartRequest(p)
          \/ StartToken(p)
          \/ TmGet(p)
          \/ TmDelete(p)
          \/ TmCreated(p)
          \/ TmSet(p)
          \/ DataResponse(p)
          \/ Finish(p)
    \/ Tick

Spec == Init /\ [][Next]_vars

\* the store callback or the remote answer caller p awaits
Step(p) ==
    \/ TmGet(p)
    \/ TmDelete(p)
    \/ TmCreated(p)
    \/ TmSet(p)
    \/ DataResponse(p)

\* every store call and every network call completes
FairSpec == Spec /\ \A p \in Procs : WF_vars(Step(p))

\* no other caller has an operation in flight
Quiet(p) == \A q \in Procs \ {p} : task[q].pc \in {"idle", "done"}

\* the callers never overlap: an operation starts when no other is in flight
NextSeq ==
    \/ \E p \in Procs :
          \/ StartRequest(p) /\ Quiet(p)
          \/ StartToken(p) /\ Quiet(p)
          \/ TmGet(p)
          \/ TmDelete(p)
          \/ TmCreated(p)
          \/ TmSet(p)
          \/ DataResponse(p)
          \/ Finish(p)
    \/ Tick

SpecSeq == Init /\ [][NextSeq]_vars

-----------------------------------------------------------------------------
(* Properties.  A finished request is an operation of RequestOps at        *)
(* pc = "done"; its frame still holds what it did.                         *)

ReqDone(p) == task[p].op \in RequestOps /\ task[p].pc = "done"

\* a finished request that ended on a data response (task[p].last)
Answered(p) == ReqDone(p) /\ task[p].last # NoResponse

\* the response carries a JSON body the client parses: always for get/post,
\* for getRaw/postRaw when the content-type says JSON
ParsedJson(op, res) ==
    /\ res.body.json
    /\ IsRaw(op) => StartsWith(res.ctype, <<"application/json">>)

\* the client is answered with errcode c
AnsweredErrcode(op, res, c) ==
    /\ ParsedJson(op, res)
    /\ "errcode" \in DOMAIN res.body.value
    /\ res.body.value.errcode = c

\* a success payload: for get/post a JSON body with errcode absent or 0, for
\* getRaw/postRaw a body that is not announced as JSON
SuccessResponse(op, res) ==
    IF IsRaw(op) THEN ~StartsWith(res.ctype, <<"application/json">>)
    ELSE /\ res.body.json
         /\ "errcode" \in DOMAIN res.body.value => res.body.value.errcode = 0

\* what the caller is to get from a success payload
PayloadOf(op, res) == IF IsRaw(op) THEN res ELSE res.body.value

\* the first attempt found no usable token in the cache
ColdStart(p) == task[p].reads # <<>> /\ task[p].reads[1] = "miss"

\* the retried attempt found the refreshed token in the cache
RetryReadHit(p) == Len(task[p].reads) = 2 /\ task[p].reads[2] = "hit"

(* C1, as claimed: from an empty cache, a first data response with errcode
   40001 followed by a success payload makes get, post, getRaw and postRaw
   return that payload, with exactly two token-creation calls made. *)
C1_ExactlyTwoCreations ==
    \A p \in Procs :
        (Answered(p) /\ ColdStart(p) /\ task[p].isRetry
              /\ SuccessResponse(task[p].op, task[p].last))
          => /\ task[p].result = Returned(PayloadOf(task[p].op, task[p].last))
             /\ task[p].nCreate = 2

(* C1, amended: from an empty cache, a first data response with errcode 40001
   followed by a success payload makes get, post, getRaw and postRaw return
   that payload; the token-creation primitive has then been invoked twice
   when the retried attempt's cache read found the refreshed token, and three
   times when that read missed. *)
C1_RetryReturnsPayload ==
    \A p \in Procs :
        (Answered(p) /\ ColdStart(p) /\ task[p].isRetry
              /\ SuccessResponse(task[p].op, task[p].last))
          => /\ task[p].result = Returned(PayloadOf(task[p].op, task[p].last))
             /\ task[p].nForced = 1
             /\ task[p].nData = 2
             /\ task[p].nCreate = IF RetryReadHit(p) THEN 2 ELSE 3

\* a retried request returned its payload after two token creations
C1_Witness ==
    \E p \in Procs :
        /\ ReqDone(p) /\ ColdStart(p) /\ task[p].isRetry
        /\ task[p].result.kind = "returned"
        /\ task[p].nCreate = 2

(* C2, as claimed: from an empty cache, errcode 40001 answered twice in a
   row ends the request in a thrown error after exactly one retry, with
   exactly two token-creation calls and exactly two data calls; a third data
   call is never issued. *)
C2_TwoCreationsTwoCalls ==
    \A p \in Procs :
        /\ task[p].nData <= 2
        /\ (Answered(p) /\ ColdStart(p) /\ task[p].isRetry
                /\ AnsweredErrcode(task[p].op, task[p].last, 40001))
             => /\ task[p].result.kind = "thrown"
                /\ task[p].nForced = 1
                /\ task[p].nCreate = 2
                /\ task[p].nData = 2

(* C2, amended: from an empty cache, errcode 40001 answered twice in a row
   ends the request in a thrown "Request to '<path>' is failed." error that
   carries the second response, after exactly one retry (one forced refresh)
   and exactly two data calls; a third data call is never issued.  The
   token-creation primitive has then been invoked twice when the retried
   attempt's cache read found the refreshed token, three times when it
   missed. *)
C2_DoubleFailureThrows ==
    \A p \in Procs :
        /\ task[p].nData <= 2
        /\ (Answered(p) /\ ColdStart(p) /\ task[p].isRetry
                /\ AnsweredErrcode(task[p].op, task[p].last, 40001))
             => /\ task[p].result =
                     Thrown([name |-> "WeixinError",
                             message |-> <<"Request to '">> \o task[p].path
                                            \o <<"' is failed", ".">>,
                             response |-> task[p].last.body.value])
                /\ task[p].nForced = 1
                /\ task[p].nData = 2
                /\ task[p].nCreate = IF RetryReadHit(p) THEN 2 ELSE 3

\* a request was answered 40001 on its retried attempt as well
C2_Witness ==
    \E p \in Procs :
        /\ Answered(p) /\ ColdStart(p) /\ task[p].isRetry
        /\ AnsweredErrcode(task[p].op, task[p].last, 40001)
        /\ task[p].result.kind = "thrown"
        /\ task[p].nData = 2

\* the phrase of an authorization-code errcode, "" for any other errcode
C3_AuthCodePhrase(c) ==
    CASE c = 40029 -> "invalid code"
      [] c = 40163 -> "code has been used"
      [] c = 42003 -> "code has expired"
      [] OTHER -> ""

\* the first attempt of p's finished request was answered a non-zero errcode
\* other than 40001
C3_Case(p) ==
    /\ Answered(p) /\ ~task[p].isRetry
    /\ ParsedJson(task[p].op, task[p].last)
    /\ "errcode" \in DOMAIN task[p].last.body.value
    /\ task[p].last.body.value.errcode \notin {0, 40001}

\* no forced refresh, no retry, one data call, one token creation from an
\* empty cache
C3_NoRetry(p) ==
    /\ task[p].result.kind = "thrown"
    /\ task[p].nData = 1
    /\ task[p].nForced = 0
    /\ task[p].nTM = 1
    /\ task[p].nCreate = IF ColdStart(p) THEN 1 ELSE 0

(* C3, as claimed: every non-zero errcode other than 40001 on the first
   attempt makes the request throw an error with message
   "Request to '<path>' is failed." after exactly one data call, without
   forced refresh or retry, and with exactly one token-creation call from an
   empty cache. *)
C3_MessageAlwaysPlain ==
    \A p \in Procs :
        C3_Case(p)
          => /\ C3_NoRetry(p)
             /\ task[p].result.error.message =
                   <<"Request to '">> \o task[p].path \o <<"' is failed", ".">>

(* C3, amended: every non-zero errcode other than 40001 on the first attempt
   makes the request throw after exactly one data call, without forced
   refresh or retry, and with exactly one token-creation call from an empty
   cache.  The error is the generic error with message
   "Request to '<path>' is failed." unless the errcode is 40029, 40163 or
   42003: then it is the authorization-code error with message
   "Request to '<path>' is failed: <phrase>.". *)
C3_OtherErrcodeThrows ==
    \A p \in Procs :
        C3_Case(p)
          => LET c == task[p].last.body.value.errcode
                 phrase == C3_AuthCodePhrase(c)
             IN  /\ C3_NoRetry(p)
                 /\ task[p].result.error.response = task[p].last.body.value
                 /\ IF phrase = ""
                    THEN /\ task[p].result.error.name = "WeixinError"
                         /\ task[p].result.error.message =
                               <<"Request to '">> \o task[p].path
                                   \o <<"' is failed", ".">>
                    ELSE /\ task[p].result.error.name = "WeixinAuthCodeError"
                         /\ task[p].result.error.message =
                               <<"Request to '">> \o task[p].path
                                   \o <<"' is failed", ": ", phrase, ".">>

\* a first attempt was answered 45009 and the request threw
C3_Witness ==
    \E p \in Procs :
        /\ C3_Case(p) /\ ColdStart(p)
        /\ task[p].last.body.value.errcode = 45009
        /\ task[p].result.kind = "thrown"

(* C4: whatever the remote answers, and provided every store and network
   call completes, every get/post/getRaw/postRaw request terminates (returns
   or throws), starts at most one forced refresh and issues at most two data
   calls; a response received in the retried attempt, 40001 included, ends
   the request. *)
C4_TerminatesAfterOneRetry ==
    /\ \A p \in Procs :
          (task[p].op \in RequestOps) ~> (task[p].pc = "done")
    /\ [](\A p \in Procs : task[p].nForced <= 1 /\ task[p].nData <= 2)
    /\ [][\A p \in Procs :
            (task[p].pc = "data" /\ task[p].isRetry /\ task'[p] # task[p])
              => /\ task'[p].pc = "done"
                 /\ task'[p].result.kind \in {"returned", "thrown"}
                 /\ task'[p].nForced = 1
                 /\ task'[p].nData = 2]_vars

\* a request ended on errcode 40001 in its retried attempt
C4_Witness ==
    \E p \in Procs :
        /\ Answered(p) /\ task[p].isRetry
        /\ AnsweredErrcode(task[p].op, task[p].last, 40001)
        /\ task[p].nForced = 1 /\ task[p].nData = 2

\* the cache holds an unexpired entry under key k
Warm(k) == store[k].present /\ store[k].expiresAt > now

\* caller p takes the step
Stepped(p) == task'[p] # task[p]

(* C5: a non-forced getAccessToken / getStableAccessToken that finds an
   unexpired entry under its key returns the cached access_token and makes no
   token-creation call; with callers that do not overlap, an unexpired entry
   stays as it is until its TTL elapses or a forced refresh deletes it, so
   from an empty cache the first non-forced call makes the one creation call
   and every repeated non-forced call within the TTL makes none. *)
C5_WarmCacheNoCreate ==
    [][/\ \A p \in Procs :
            (task[p].pc = "tm_get" /\ Stepped(p) /\ Warm(KeyOf(task[p])))
              => /\ store' = store
                 /\ task'[p].nCreate = task[p].nCreate
                 /\ task'[p].pc # "tm_create"
                 /\ task[p].op \in TokenOps
                      => /\ task'[p].pc = "done"
                         /\ task'[p].result =
                               Returned(store[KeyOf(task[p])].data.access_token)
       /\ \A p \in Procs :
            (task'[p].op \in TokenOps /\ task'[p].nForced = 0)
              => task'[p].nCreate = IF task'[p].reads = <<"miss">> THEN 1 ELSE 0
       /\ \A k \in Keys :
            (/\ Warm(k)
             /\ now' < store[k].expiresAt
             /\ ~\E p \in Procs : /\ task[p].pc = "tm_delete"
                                  /\ KeyOf(task[p]) = k
                                  /\ Stepped(p))
              => store'[k] = store[k]]_vars

\* a second, non-forced getAccessToken was served from the cache
C5_Witness ==
    /\ task["tok"].op \in TokenOps /\ task["tok"].pc = "done"
    /\ task["tok"].reads = <<"hit">>
    /\ task["tok"].nCreate = 0
    /\ task["tok"].result.kind = "returned"
    /\ started = 2

(* C6: a forced getAccessToken / getStableAccessToken always deletes the entry
   of its key, whether or not one exists, never reads the cache and always
   makes exactly one token-creation call, even when an unexpired entry was
   cached; on a success response the store then holds the newly issued
   access_token under that key and that token is returned. *)
C6_ForcedRefresh ==
    [][\A p \in Procs :
          LET t == task[p]
              k == KeyOf(t)
          IN  /\ (t.pc = "tm_delete" /\ Stepped(p))
                   => /\ store'[k] = NoEntry
                      /\ \A j \in Keys \ {k} : store'[j] = store[j]
                      /\ task'[p].pc = "tm_create"
                      /\ task'[p].nCreate = t.nCreate + 1
              /\ (t.op \in TokenOps /\ t.force /\ t.pc = "tm_set" /\ Stepped(p))
                   => /\ store'[k].present
                      /\ store'[k].data = [access_token |-> t.data.access_token]
                      /\ task'[p].pc = "done"
                      /\ task'[p].result = Returned(t.data.access_token)
              /\ (task'[p].op \in TokenOps /\ task'[p].nForced = 1)
                   => /\ task'[p].reads = <<>>
                      /\ task'[p].nCreate =
                            IF task'[p].pc = "tm_delete" THEN 0 ELSE 1]_vars

\* a request's forced refresh has deleted the unexpired entry a concurrent
\* getAccessToken() had just been served from
C6_Witness ==
    /\ task["req"].pc = "tm_create" /\ task["req"].nForced = 1
    /\ task["tok"].op = "getAccessToken" /\ task["tok"].pc = "done"
    /\ task["tok"].reads = <<"hit">>
    /\ now = 0
    /\ store[StdKey] = NoEntry

(* C7: for get, post, getRaw and postRaw alike, a response whose parsed JSON
   body has errcode absent or equal to 0 is a terminal success: the payload
   (get/post) or the response (getRaw/postRaw) is returned and nothing is
   thrown. *)
C7_NoErrcodeIsSuccess ==
    \A p \in Procs :
        (/\ Answered(p)
         /\ ParsedJson(task[p].op, task[p].last)
         /\ "errcode" \in DOMAIN task[p].last.body.value
               => task[p].last.body.value.errcode = 0)
          => task[p].result = Returned(PayloadOf(task[p].op, task[p].last))

\* the parsed JSON body of the response carries a non-zero errcode
NonZeroErrcode(op, res) ==
    /\ ParsedJson(op, res)
    /\ "errcode" \in DOMAIN res.body.value
    /\ res.body.value.errcode # 0

(* C8: no get/post/getRaw/postRaw call returns successfully on a response
   whose parsed JSON body carries a non-zero errcode, whatever its HTTP
   status: a response either ends the call, which then throws with that
   payload if the errcode is non-zero, or starts the single forced refresh of
   the first attempt. *)
C8_NonZeroErrcodeFails ==
    [][\A p \in Procs :
          (task[p].pc = "data" /\ Stepped(p))
            => \/ /\ task'[p].pc = "done"
                  /\ task'[p].result.kind \in {"returned", "thrown"}
                  /\ NonZeroErrcode(task'[p].op, task'[p].last)
                       => /\ task'[p].result.kind = "thrown"
                          /\ task'[p].result.error.response =
                                task'[p].last.body.value
               \/ /\ task'[p].pc = "tm_delete"
                  /\ ~task[p].isRetry
                  /\ task'[p].nForced = 1]_vars

\* a request threw on an error payload that came with HTTP status 400
C8_Witness ==
    \E p \in Procs :
        /\ Answered(p)
        /\ NonZeroErrcode(task[p].op, task[p].last)
        /\ task[p].last.status = 400
        /\ task[p].result.kind = "thrown"

(* C9: getRaw/postRaw return a response whose content-type does not start
   with application/json as it is, body unparsed and errcode not inspected:
   it causes no forced refresh, no retry and no error, in the first attempt
   and in the retried attempt alike. *)
C9_NonJsonRawReturned ==
    \A p \in Procs :
        (/\ Answered(p)
         /\ IsRaw(task[p].op)
         /\ ~StartsWith(task[p].last.ctype, <<"application/json">>))
          => /\ task[p].result = Returned(task[p].last)
             /\ task[p].nForced = IF task[p].isRetry THEN 1 ELSE 0
             /\ task[p].nData = IF task[p].isRetry THEN 2 ELSE 1

\* a retried raw request returned a non-JSON response whose body holds an
\* errcode 40001 payload
C9_Witness ==
    \E p \in Procs :
        /\ Answered(p) /\ IsRaw(task[p].op) /\ task[p].isRetry
        /\ task[p].last.ctype = <<"image/jpeg">>
        /\ task[p].last.body.json
        /\ ErrcodeOf(task[p].last.body.value) = 40001
        /\ task[p].result = Returned(task[p].last)

(* C10, as claimed: whatever runs concurrently and whatever expires_in the
   remote returns, one get/post/getRaw/postRaw request causes at most two
   token-creation calls and at most two data calls. *)
C10_AtMostTwoCreations ==
    \A p \in Procs :
        task[p].op \in RequestOps
          => task[p].nCreate <= 2 /\ task[p].nData <= 2

(* C10, amended: whatever runs concurrently and whatever expires_in the
   remote returns, one get/post/getRaw/postRaw request causes at most three
   token-creation calls (at most one in the first attempt, one in the forced
   refresh, at most one in the retried attempt) and at most two data calls
   (one per attempt). *)
C10_AtMostThreeCreations ==
    \A p \in Procs :
        task[p].op \in RequestOps
          => /\ task[p].nCreate <= 3
             /\ task[p].nData <= 2
             /\ task[p].nData <= IF task[p].isRetry THEN 2 ELSE 1
             /\ task[p].nCreate <= IF task[p].isRetry THEN 3
                                   ELSE IF task[p].nForced = 1 THEN 2 ELSE 1

\* a request made three token-creation calls and two data calls
C10_Witness ==
    \E p \in Procs :
        ReqDone(p) /\ task[p].nCreate = 3 /\ task[p].nData = 2

(* C11, as claimed: one get/post/getRaw/postRaw request invokes the token
   manager (getAccessToken, forced or not) at most twice, on every path, the
   40001 retry path included. *)
C11_AtMostTwoInvocations ==
    \A p \in Procs :
        task[p].op \in RequestOps => task[p].nTM <= 2

(* C11, amended: one get/post/getRaw/postRaw request invokes the token
   manager at most three times: once for the first attempt, once forced
   after a first 40001 answer, and once more for the retried attempt.  A
   finished request has invoked it once (no retry), twice (the forced refresh
   failed and its error was thrown) or three times (retried). *)
C11_AtMostThreeInvocations ==
    \A p \in Procs :
        task[p].op \in RequestOps
          => /\ task[p].nTM <= 3
             /\ task[p].nTM = IF task[p].isRetry THEN 3
                              ELSE IF task[p].nForced = 1 THEN 2 ELSE 1
             /\ (task[p].pc = "done" /\ task[p].nTM = 2)
                  => /\ task[p].result.kind = "thrown"
                     /\ task[p].last = NoResponse
                     /\ task[p].result.error.response
                           \in {ErrorResponse(c) : c \in CreateErrCodes}

\* a retried request ended on a warm cache read: three invocations, two
\* token-creation calls
C11_Witness ==
    \E p \in Procs :
        /\ Answered(p) /\ task[p].isRetry
        /\ task[p].nTM = 3
        /\ task[p].nCreate = 2

-----------------------------------------------------------------------------
(* Two clients of one appid on one store *)

\* a second client is constructed with the same appid, another secret and
\* the same store
InitShared ==
    /\ store = [k \in Keys |-> NoEntry]
    /\ now = 0
    /\ task = [p \in Procs |-> Idle]
    /\ started = 0
    /\ clients \in {{Secret, s} : s \in OtherSecrets}
    /\ probe = NoProbe

SpecShared == InitShared /\ [][Next]_vars

(* C12: two clients with the same appid and different secrets that share one
   token store compute different cache keys, so getAccessToken /
   getStableAccessToken of one never returns a token cached by the other:
   when the only other operation of the behaviour ran on a client with
   another secret, a non-forced token read misses. *)
C12_SecretsIsolated ==
    \A p, q \in Procs :
        (/\ task[p].op \in TokenOps
         /\ task[q].op # "none"
         /\ task[p].secret # task[q].secret
         /\ started = 2)
          => task[p].reads # <<"hit">>

-----------------------------------------------------------------------------
(* Transport *)

(* C13: for every method, fetcher.request on a path that does not start with
   '/' (the empty path included) throws the input-validation error and makes
   no network call; on a path that starts with '/' one invocation makes
   exactly one network call, with that method, path and access token.  In the
   client: a data call is in flight only for a path starting with '/', one
   per attempt, and a request whose transport threw has made none. *)
C13_TransportValidatesPath ==
    /\ \A method \in {"GET", "POST"}, path \in Paths \cup {<<>>},
          accessToken \in Tokens :
          LET r == FetcherRequest(method, path, accessToken)
          IN  IF StartsWith(path, <<"/">>)
              THEN /\ r.ok
                   /\ r.call.method = method
                   /\ r.call.path = path
                   /\ r.call.access_token = accessToken
              ELSE /\ ~r.ok
                   /\ r.error = PathError
    /\ \A p \in Procs :
          task[p].op \in RequestOps
            => /\ task[p].pc = "data"
                    => /\ StartsWith(task[p].path, <<"/">>)
                       /\ task[p].call # NoCall
                       /\ task[p].call.method = MethodOf(task[p].op)
                       /\ task[p].call.path = task[p].path
                       /\ task[p].nData = IF task[p].isRetry THEN 2 ELSE 1
               /\ task[p].pc # "data" => task[p].call = NoCall
               /\ ~StartsWith(task[p].path, <<"/">>) => task[p].nData = 0
               /\ task[p].result = Thrown(PathError)
                    => /\ ~StartsWith(task[p].path, <<"/">>)
                       /\ task[p].nData = 0

\* a request on the path 'x' ended in the input-validation error, no data
\* call made
C13_Witness ==
    \E p \in Procs :
        /\ ReqDone(p)
        /\ task[p].path = <<"x">>
        /\ task[p].result = Thrown(PathError)
        /\ task[p].nData = 0

(* C14: a get/post/getRaw/postRaw call whose path does not start with '/'
   fails with the input-validation error and no network call has been made
   on its behalf, neither a data call nor a token-creation call, whatever the
   token cache holds. *)
C14_BadPathFailsFast ==
    \A p \in Procs :
        (task[p].op \in RequestOps /\ ~StartsWith(task[p].path, <<"/">>))
          => /\ task[p].nCreate = 0
             /\ task[p].nData = 0
             /\ task[p].pc = "done" => task[p].result = Thrown(PathError)

-----------------------------------------------------------------------------
(* Memory token store, as the token manager drives it *)

(* C15: store.get never returns an entry whose expiresAt is <= the current
   time: the read of such an entry returns null and removes the entry from
   the store in that same read; an entry that is returned has
   expiresAt > now. *)
C15_ExpiredNeverReturned ==
    [][\A p \in Procs :
          LET t == task[p]
              k == KeyOf(t)
          IN  (t.pc = "tm_get" /\ Stepped(p))
                => /\ (store[k].present /\ store[k].expiresAt <= now)
                        => /\ store' = [store EXCEPT ![k] = NoEntry]
                           /\ task'[p].reads = Append(t.reads, "miss")
                           /\ task'[p].pc = "tm_create"
                   /\ task'[p].reads = Append(t.reads, "hit")
                        => /\ store[k].present
                           /\ store[k].expiresAt > now]_vars

\* of two operations only, the request stored a token and nothing deleted
\* it; getAccessToken() then read null and the entry is gone
C15_Witness ==
    /\ started = 2
    /\ task["req"].pc = "done" /\ task["req"].nData = 1
    /\ task["req"].nForced = 0 /\ task["req"].reads = <<"miss">>
    /\ task["tok"].op = "getAccessToken" /\ task["tok"].nForced = 0
    /\ task["tok"].pc = "tm_create" /\ task["tok"].reads = <<"miss">>
    /\ store[StdKey] = NoEntry

(* C16: store round trip.  set(key, token, ttl) stores the token with
   expiresAt = now + ttl seconds; an entry changes only by a set or a delete
   of its key or by the read that finds it expired; every get before
   expiresAt returns exactly the stored token and leaves the store as it is,
   every get from expiresAt on, and every get of a key without entry,
   returns null. *)
C16_StoreRoundTrip ==
    [][/\ \A p \in Procs :
            LET t == task[p]
                k == KeyOf(t)
            IN  /\ (t.pc = "tm_set" /\ Stepped(p))
                     => store' = [store EXCEPT ![k] =
                           Entry([access_token |-> t.data.access_token],
                                 now + (t.data.expires_in - TtlMargin)
                                          * MsPerSecond)]
                /\ (t.pc = "tm_get" /\ Stepped(p))
                     => IF store[k].present /\ now < store[k].expiresAt
                        THEN /\ store' = store
                             /\ task'[p].reads = Append(t.reads, "hit")
                             /\ t.op \in TokenOps
                                  => task'[p].result =
                                        Returned(store[k].data.access_token)
                             /\ task'[p].pc = "data"
                                  => task'[p].call.access_token =
                                        store[k].data.access_token
                        ELSE /\ task'[p].reads = Append(t.reads, "miss")
                             /\ store'[k] = NoEntry
       /\ \A k \in Keys :
            store'[k] # store[k]
              => \E p \in Procs :
                    /\ Stepped(p)
                    /\ KeyOf(task[p]) = k
                    /\ \/ task[p].pc \in {"tm_set", "tm_delete"}
                       \/ /\ task[p].pc = "tm_get"
                          /\ store[k].present
                          /\ store[k].expiresAt <= now]_vars

\* getAccessToken() read back, unchanged, the token stored with a TTL of one
\* second that has not elapsed
C16_Witness ==
    /\ task["tok"].op = "getAccessToken" /\ task["tok"].pc = "done"
    /\ task["tok"].reads = <<"hit">>
    /\ store[StdKey].present
    /\ store[StdKey].expiresAt = now + MsPerSecond
    /\ task["tok"].result = Returned(store[StdKey].data.access_token)

(* C17: store.delete of a key without entry completes and leaves the store
   unchanged; delete of a key with an entry removes that entry only; in both
   cases the caller goes on.  A key without entry gets one only by a set of
   that key, and until then get of it returns null. *)
C17_StoreDelete ==
    [][/\ \A p \in Procs :
            LET t == task[p]
                k == KeyOf(t)
            IN  /\ (t.pc = "tm_delete" /\ Stepped(p))
                     => /\ IF store[k].present
                           THEN store' = [store EXCEPT ![k] = NoEntry]
                           ELSE store' = store
                        /\ task'[p].pc = "tm_create"
                /\ (t.pc = "tm_get" /\ Stepped(p) /\ ~store[k].present)
                     => /\ store' = store
                        /\ task'[p].reads = Append(t.reads, "miss")
       /\ \A k \in Keys :
            (~store[k].present /\ store'[k].present)
              => \E p \in Procs :
                    /\ Stepped(p)
                    /\ KeyOf(task[p]) = k
                    /\ task[p].pc = "tm_set"]_vars

\* the forced refresh of a request has deleted the entry its first attempt
\* stored, and the entry of the stable key is still there
C17_Witness ==
    /\ task["req"].pc = "tm_create" /\ task["req"].nForced = 1
    /\ task["req"].nCreate = 2
    /\ store[StdKey] = NoEntry
    /\ task["tok"].op = "getStableAccessToken" /\ task["tok"].pc = "done"
    /\ store[StableKey].present

-----------------------------------------------------------------------------
(* Token manager failures *)

\* the context of a token failure without its final '.'
TokenContext(t) ==
    IF t.op = "getStableAccessToken"
    THEN <<"Unable to get a stable access token">>
    ELSE <<"Unable to get an access token">>

(* C18, as claimed: when the token creation is answered with an error
   payload, whatever its errcode, getAccessToken throws an error with the
   message "Unable to get an access token." and getStableAccessToken one with
   "Unable to get a stable access token."; exactly one creation call was
   made. *)
C18_TokenMessageAlwaysPlain ==
    \A p \in Procs :
        (/\ task[p].op \in TokenOps
         /\ task[p].pc = "done"
         /\ task[p].result.kind = "thrown")
          => /\ task[p].result.error.message = TokenContext(task[p]) \o <<".">>
             /\ task[p].nCreate = 1

(* C18, amended: when the token creation is answered with an error payload,
   getAccessToken / getStableAccessToken throws an error carrying that
   payload; its message is "Unable to get an access token." / "Unable to get
   a stable access token." for every errcode other than 40029, 40163 and
   42003, and "Unable to get a[n] [stable] access token: <phrase>." with the
   authorization-code error type for these three.  Nothing is written to the
   store by the failing step and the creation call is not retried: exactly
   one creation call per invocation. *)
C18_TokenFailureThrows ==
    /\ [](\A p \in Procs :
            (/\ task[p].op \in TokenOps
             /\ task[p].pc = "done"
             /\ task[p].result.kind = "thrown")
              => LET e == task[p].result.error
                     phrase == authcodeErrorMap(ErrcodeOf(e.response))
                 IN  /\ e.response \in {ErrorResponse(c) : c \in CreateErrCodes}
                     /\ task[p].nCreate = 1
                     /\ IF phrase = NoPhrase
                        THEN /\ e.name = "WeixinError"
                             /\ e.message = TokenContext(task[p]) \o <<".">>
                        ELSE /\ e.name = "WeixinAuthCodeError"
                             /\ e.message = TokenContext(task[p])
                                              \o <<": ">> \o phrase \o <<".">>)
    /\ [][\A p \in Procs :
            (/\ task[p].op \in TokenOps
             /\ task[p].pc = "tm_create"
             /\ Stepped(p))
              => /\ store' = store
                 /\ task'[p].nCreate = task[p].nCreate
                 /\ task'[p].pc \in {"tm_set", "done"}
                 /\ task'[p].pc = "done" <=> task'[p].result.kind = "thrown"]_vars

\* getStableAccessToken(true) failed on errcode 40001 and left the store
\* without an entry for its key
C18_Witness ==
    /\ task["tok"].op = "getStableAccessToken" /\ task["tok"].pc = "done"
    /\ task["tok"].nForced = 1
    /\ task["tok"].result.kind = "thrown"
    /\ task["tok"].result.error.response = ErrorResponse(InvalidCredential)
    /\ task["tok"].result.error.message =
          <<"Unable to get a stable access token", ".">>
    /\ store[StableKey] = NoEntry

-----------------------------------------------------------------------------
(* The error classifier on its own: createError applied to one input *)

\* context messages: ending with '.', not ending with '.', empty, only '.'
ProbeMessages ==
    {<<"Unable to create a session", ".">>, <<"Unable to create a session">>,
     <<>>, <<".">>}

\* errcodes of the probed responses
ProbeErrcodes == {0, 40001, 40013, 40028, 40029, 40163, 42003}

\* responses handed to createError; one has no errcode
ProbeResponses ==
    [errcode : ProbeErrcodes, errmsg : {"invalid code", "invalid appid"}]
        \cup {SuccessPayload}

NoError == [name |-> "none"]

InitProbe ==
    /\ store = [k \in Keys |-> NoEntry]
    /\ now = 0
    /\ task = [p \in Procs |-> Idle]
    /\ started = 0
    /\ clients = {Secret}
    /\ probe \in {[fn |-> "createError", message |-> m, response |-> r,
                   applied |-> FALSE, out |-> NoError] :
                     m \in ProbeMessages, r \in ProbeResponses}

\* createError(message, response) is called
ApplyCreateError ==
    /\ probe.fn = "createError"
    /\ ~probe.applied
    /\ probe' = [probe EXCEPT !.applied = TRUE,
                              !.out = createError(probe.message, probe.response)]
    /\ UNCHANGED <<store, now, task, started, clients>>

NextProbe == ApplyCreateError

SpecProbe == InitProbe /\ [][NextProbe]_vars

\* the phrases of the authorization-code errcodes
C19_Phrase(errcode) ==
    CASE errcode = 40029 -> "invalid code"
      [] errcode = 40163 -> "code has been used"
      [] errcode = 42003 -> "code has expired"

(* C19: createError(contextMessage, response) yields the authorization-code
   error exactly when errcode is 40029, 40163 or 42003, with the message
   contextMessage minus its final '.' followed by ": <phrase>." when
   contextMessage ends with '.', and contextMessage followed by ": <phrase>"
   otherwise; for every other errcode, and without errcode, it yields the
   generic error with contextMessage unchanged.  Both carry the response. *)
C19_CreateErrorClassifies ==
    (probe.fn = "createError" /\ probe.applied)
      => LET m == probe.message
             r == probe.response
             e == probe.out
         IN  /\ e.response = r
             /\ IF "errcode" \in DOMAIN r /\ r.errcode \in {40029, 40163, 42003}
                THEN /\ e.name = "WeixinAuthCodeError"
                     /\ e.message =
                          IF m # <<>> /\ m[Len(m)] = "."
                          THEN SubSeq(m, 1, Len(m) - 1)
                                 \o <<": ", C19_Phrase(r.errcode), ".">>
                          ELSE m \o <<": ", C19_Phrase(r.errcode)>>
                ELSE /\ e.name = "WeixinError"
                     /\ e.message = m

\* errcode 40029 on a context ending with '.': the message ends in
\* ": invalid code."
C19_Witness ==
    /\ probe.fn = "createError" /\ probe.applied
    /\ probe.message = <<"Unable to create a session", ".">>
    /\ probe.response = [errcode |-> 40029, errmsg |-> "invalid code"]
    /\ probe.out =
          [name |-> "WeixinAuthCodeError",
           message |-> <<"Unable to create a session", ": ", "invalid code", ".">>,
           response |-> [errcode |-> 40029, errmsg |-> "invalid code"]]

-----------------------------------------------------------------------------
(* What a thrown error carries *)

\* operation p ended in an error of the classifier
ThrewWeixinError(p) ==
    /\ task[p].pc = "done"
    /\ task[p].result.kind = "thrown"
    /\ task[p].result.error.name \in {"WeixinError", "WeixinAuthCodeError"}

(* C20: every error a client operation throws because of a remote payload
   carries that payload unchanged as its response: the payload of the data
   response that ended the request (the second one for a retried request),
   or the token-creation response when the token manager failed (in a token
   operation, the first attempt or the forced refresh of a request); the
   error serializes to exactly {name, message, response}. *)
C20_ErrorCarriesResponse ==
    \A p \in Procs :
        ThrewWeixinError(p)
          => LET e == task[p].result.error
             IN  /\ DOMAIN toJSON(e) = {"name", "message", "response"}
                 /\ toJSON(e).name = e.name
                 /\ toJSON(e).message = e.message
                 /\ toJSON(e).response = e.response
                 /\ IF task[p].last # NoResponse
                    THEN /\ e.response = task[p].last.body.value
                         /\ SubSeq(e.message, 1, 3)
                              = <<"Request to '">> \o SubSeq(task[p].path, 1, 2)
                    ELSE /\ e.response
                              \in {ErrorResponse(c) : c \in CreateErrCodes}
                         /\ SubSeq(e.message, 1, 1) = TokenContext(task[p])

\* a retried request threw on its second response, errcode 45009, and the
\* error carries that payload, not the 40001 of the first
C20_Witness ==
    \E p \in Procs :
        /\ ThrewWeixinError(p)
        /\ task[p].isRetry
        /\ task[p].last # NoResponse
        /\ task[p].result.error.response = ErrorResponse(45009)

-----------------------------------------------------------------------------
(* Races on the store *)

(* C21: under every interleaving of token calls and requests on one store,
   the entry of a key is absent or holds exactly {access_token} and the
   expiry of one success response of a creation call for that key; an entry
   appears or changes its value only by the set of one caller, which replaces
   whatever was there by that caller's own response (last writer wins); no
   entry mixes two responses or holds an error payload. *)
C21_EntryIsOneResponse ==
    /\ [](\A k \in Keys :
            store[k].present
              => /\ DOMAIN store[k] = {"present", "data", "expiresAt"}
                 /\ DOMAIN store[k].data = {"access_token"}
                 /\ store[k].data.access_token \in Tokens
                 /\ \E e \in ExpiresIn, t \in 0..MaxTime :
                       /\ t * MsPerSecond <= now
                       /\ store[k].expiresAt = (t + e - TtlMargin) * MsPerSecond)
    /\ [][\A p \in Procs :
            (task[p].pc = "tm_set" /\ Stepped(p))
              => /\ store'[KeyOf(task[p])].present
                 /\ store'[KeyOf(task[p])].data
                       = [access_token |-> task[p].data.access_token]]_vars
    /\ [][\A k \in Keys :
            (store'[k].present /\ store'[k] # store[k])
              => \E p \in Procs :
                    /\ Stepped(p)
                    /\ task[p].pc = "tm_set"
                    /\ KeyOf(task[p]) = k
                    /\ "access_token" \in DOMAIN task[p].data
                    /\ "errcode" \notin DOMAIN task[p].data
                    /\ store'[k] =
                          Entry([access_token |-> task[p].data.access_token],
                                now + (task[p].data.expires_in - TtlMargin)
                                         * MsPerSecond)]_vars

\* both callers missed and created a token; the request set last and the
\* entry is its token t2, not the t1 getAccessToken() returned
C21_Witness ==
    /\ task["tok"].op = "getAccessToken" /\ task["tok"].pc = "done"
    /\ task["tok"].reads = <<"miss">>
    /\ task["tok"].result = Returned("t1")
    /\ task["req"].pc = "data" /\ task["req"].reads = <<"miss">>
    /\ task["req"].call.access_token = "t2"
    /\ store[StdKey].present
    /\ store[StdKey].data = [access_token |-> "t2"]

(* C22: on a success response of the token creation the token is stored
   under the cache key with expiresAt = now + (expires_in - 10) seconds, the
   stored value holds access_token only, and the string handed to the caller
   is the stored access_token; a non-forced call that reads the entry when
   expires_in - 10 seconds or more have passed misses and calls the remote
   again. *)
C22_TtlIsExpiresInMinusTen ==
    [][\A p \in Procs :
          LET t == task[p]
              k == KeyOf(t)
          IN  /\ (t.pc = "tm_set" /\ Stepped(p))
                   => /\ store'[k].present
                      /\ store'[k].expiresAt
                            = now + (t.data.expires_in - 10) * 1000
                      /\ store'[k].data = [access_token |-> t.data.access_token]
                      /\ t.op \in TokenOps
                           => task'[p].result
                                 = Returned(store'[k].data.access_token)
                      /\ task'[p].pc = "data"
                           => task'[p].call.access_token
                                 = store'[k].data.access_token
              /\ (/\ t.pc = "tm_get" /\ Stepped(p)
                  /\ store[k].present /\ now >= store[k].expiresAt)
                   => /\ task'[p].pc = "tm_create"
                      /\ task'[p].nCreate = t.nCreate + 1]_vars

\* getAccessToken() missed, created a token with expires_in 11 and returned
\* it: the entry expires one second from now and holds that token
C22_Witness ==
    /\ task["tok"].op = "getAccessToken" /\ task["tok"].pc = "done"
    /\ task["tok"].reads = <<"miss">> /\ task["tok"].nCreate = 1
    /\ task["tok"].result.kind = "returned"
    /\ store[StdKey].present
    /\ store[StdKey].data = [access_token |-> task["tok"].result.value]
    /\ store[StdKey].expiresAt = now + (11 - 10) * 1000

-----------------------------------------------------------------------------
(* Order of the events of one request *)

(* C23: within one request the events are strictly ordered.  A data call is
   issued only by the step in which a non-forced token manager call hands its
   token over; the first one in the first invocation, the second one in the
   third.  The forced refresh starts only in the step that receives the first
   response (errcode 40001, one data call made, not yet retried), and the
   retried attempt starts only in the step that completes the store.set of
   the forced refresh. *)
C23_EventsOrdered ==
    [][\A p \in Procs :
          LET t == task[p]
              u == task'[p]
          IN  (t.op \in RequestOps /\ u.op = t.op /\ Stepped(p))
                => /\ u.nData # t.nData
                        => /\ u.nData = t.nData + 1
                           /\ t.pc \in {"tm_get", "tm_set"}
                           /\ ~t.force
                           /\ u.pc = "data"
                           /\ t.nTM = IF t.isRetry THEN 3 ELSE 1
                           /\ u.nData = IF t.isRetry THEN 2 ELSE 1
                           /\ t.isRetry => t.nForced = 1
                   /\ u.nForced # t.nForced
                        => /\ u.nForced = 1
                           /\ t.pc = "data"
                           /\ t.nData = 1
                           /\ ~t.isRetry
                           /\ u.pc = "tm_delete"
                   /\ u.isRetry # t.isRetry
                        => /\ u.isRetry
                           /\ t.pc = "tm_set"
                           /\ t.force
                           /\ t.nForced = 1 /\ t.nData = 1
                           /\ u.pc = "tm_get"
                           /\ store'[KeyOf(t)].present]_vars

\* the second data call is in flight: one forced refresh and three token
\* manager invocations lie behind it
C23_Witness ==
    \E p \in Procs :
        /\ task[p].op \in RequestOps /\ task[p].pc = "data"
        /\ task[p].isRetry
        /\ task[p].nData = 2 /\ task[p].nForced = 1 /\ task[p].nTM = 3
        /\ task[p].call.access_token \in Tokens

(* C24: there is no single-flight coalescing.  A non-forced caller whose
   read finds no unexpired entry issues a token-creation call, whether or not
   another caller's creation or set for the same key is in flight; and a
   forced refresh deletes the entry of its key whoever stored it. *)
C24_NoCoalescing ==
    [][\A p \in Procs :
          LET t == task[p]
              k == KeyOf(t)
          IN  /\ (/\ t.pc = "tm_get" /\ Stepped(p)
                  /\ ~(store[k].present /\ store[k].expiresAt > now))
                   => /\ task'[p].pc = "tm_create"
                      /\ task'[p].nCreate = t.nCreate + 1
                      /\ \A q \in Procs \ {p} : task'[q] = task[q]
              /\ (t.pc = "tm_delete" /\ Stepped(p))
                   => /\ ~store'[k].present
                      /\ task'[p].pc = "tm_create"
                      /\ \A q \in Procs \ {p} : task'[q] = task[q]]_vars

\* with an empty cache two non-forced callers on the same key have both
\* missed and both have a token-creation call in flight
C24_Witness ==
    /\ task["req"].pc = "tm_create" /\ task["req"].reads = <<"miss">>
    /\ task["req"].nCreate = 1 /\ task["req"].nForced = 0
    /\ task["tok"].op = "getAccessToken" /\ task["tok"].pc = "tm_create"
    /\ task["tok"].reads = <<"miss">> /\ task["tok"].nCreate = 1
    /\ task["tok"].nForced = 0
    /\ KeyOf(task["req"]) = KeyOf(task["tok"])
    /\ store[StdKey] = NoEntry
    /\ now = 0

-----------------------------------------------------------------------------
(* The standard and the stable token lifecycle *)

\* the key of the other kind for the same appid and secret
Twin(k) ==
    IF k[Len(k)] = ":stable" THEN SubSeq(k, 1, Len(k) - 1)
    ELSE k \o <<":stable">>

\* the store with the entries of the two kinds exchanged
SwapStore(s) == [k \in Keys |-> s[Twin(k)]]

\* a getStableAccessToken frame read as a getAccessToken frame: the method,
\* the creation call and the context of the failure message are renamed
AsStandard(t) ==
    IF t.op # "getStableAccessToken" THEN t
    ELSE [t EXCEPT
            !.op = "getAccessToken",
            !.create = IF t.create = NoCall THEN NoCall
                       ELSE createAccessToken(Appid, t.secret),
            !.result = IF t.result.kind = "thrown"
                       THEN Thrown([t.result.error EXCEPT
                                      !.message =
                                         <<"Unable to get an access token">>
                                            \o Tail(t.result.error.message)])
                       ELSE t.result]

\* one step of getAccessToken from frame t and store s to frame u and store
\* s2, at its store callback or remote answer
StandardStep(t, s, u, s2) ==
    CASE t.pc = "tm_get" ->
            /\ s2 = StoreAfterGet(s, KeyOf(t), now)
            /\ u = IF GetTokenData(s, KeyOf(t), now).present
                   THEN Finished([t EXCEPT !.reads = Append(@, "hit")],
                                 Returned(s[KeyOf(t)].data.access_token))
                   ELSE CallCreate([t EXCEPT !.reads = Append(@, "miss")])
      [] t.pc = "tm_delete" ->
            /\ s2 = StoreDelete(s, KeyOf(t))
            /\ u = CallCreate(t)
      [] t.pc = "tm_create" ->
            /\ s2 = s
            /\ \E data \in AccessTokenResponses :
                  u = IF "access_token" \in DOMAIN data
                      THEN [t EXCEPT !.pc = "tm_set", !.data = data,
                                     !.create = NoCall]
                      ELSE Finished(t, Thrown(createError(
                              <<"Unable to get an access token", ".">>, data)))
      [] t.pc = "tm_set" ->
            /\ s2 = StoreSet(s, KeyOf(t),
                             [access_token |-> t.data.access_token],
                             t.data.expires_in - TtlMargin, now)
            /\ u = Finished(t, Returned(t.data.access_token))
      [] t.pc = "done" -> s2 = s /\ u = Idle
      [] OTHER -> FALSE

(* C25: the stable lifecycle is the standard one.  Every step of
   getStableAccessToken, with the method renamed and the entries of the two
   keys exchanged, is the step getAccessToken takes from the same frame,
   cache state and remote response: same read, delete, write, TTL and
   outcome.  The differences are the stable cache key, the stable creation
   primitive, which is passed the forceRefresh flag, and the stable context
   of the failure message. *)
C25_StableIsStandard ==
    [][\A p \in Procs :
          LET t == task[p]
              u == task'[p]
          IN  (t.op = "getStableAccessToken" /\ Stepped(p))
                => /\ StandardStep(AsStandard(t), SwapStore(store),
                                   AsStandard(u), SwapStore(store'))
                   /\ KeyOf(t) = KeyOf(AsStandard(t)) \o <<":stable">>
                   /\ u.pc = "tm_create"
                        => /\ u.create = createStableAccessToken(Appid, t.secret,
                                                                t.force)
                           /\ u.create.args.force_refresh = (t.nForced = 1)
                           /\ u.create.request.path = <<"/", "cgi-bin/stable_token">>
                   /\ (u.pc = "done" /\ u.result.kind = "thrown")
                        => Head(u.result.error.message)
                              = "Unable to get a stable access token"]_vars

\* getStableAccessToken(true) has its creation call in flight, made with
\* force_refresh = true, and the entry of the standard key is in place
C25_Witness ==
    /\ task["tok"].op = "getStableAccessToken"
    /\ task["tok"].pc = "tm_create"
    /\ task["tok"].create.args.force_refresh = TRUE
    /\ task["tok"].create.request.method = "POST"
    /\ store[StableKey] = NoEntry
    /\ store[StdKey].present

-----------------------------------------------------------------------------
(* Authorization codes: createSessionFromCode and createTokenFromCode *)

CodeOps == {"createSessionFromCode", "createTokenFromCode"}

\* the callers that exchange authorization codes
CodeCallers == {"tok"}

\* authorization codes a caller may pass
Codes == {"code1"}

\* fetcher.exchangeCodeForSession: the call it makes
exchangeCodeForSession(appid, secret, code) ==
    [request |-> FetcherRequest("GET", <<"/", "sns/jscode2session">>,
                                NoToken).call,
     args |-> [appid |-> appid, secret |-> secret, js_code |-> code,
               grant_type |-> "authorization_code"]]

\* fetcher.exchangeCodeForToken: the call it makes
exchangeCodeForToken(appid, secret, code) ==
    [request |-> FetcherRequest("GET", <<"/", "sns/oauth2/access_token">>,
                                NoToken).call,
     args |-> [appid |-> appid, secret |-> secret, code |-> code,
               grant_type |-> "authorization_code"]]

CodeFailed(op) ==
    IF op = "createSessionFromCode"
    THEN <<"Unable to create a session from an authorization code", ".">>
    ELSE <<"Unable to create a token from an authorization code", ".">>

CodeSessionResponse == [session_key |-> "session-key", openid |-> "openid1"]

CodeTokenResponse ==
    [access_token |-> "user-token", expires_in |-> 7200,
     refresh_token |-> "refresh-token", openid |-> "openid1",
     scope |-> "snsapi_login", unionid |-> "unionid1"]

\* errcodes the remote may answer an exchange with
CodeErrCodes == {40013, 40029, 40163, 42003}

\* what the remote may answer an exchange with; one payload has neither
\* openid nor errcode
CodeResponses ==
    {CodeSessionResponse, CodeTokenResponse, SuccessPayload}
        \cup {ErrorResponse(c) : c \in CodeErrCodes}

\* a caller calls createSessionFromCode(code) or createTokenFromCode(code);
\* lines 180-181, 197-198
StartCode(p) ==
    /\ task[p].pc = "idle"
    /\ started < MaxOps
    /\ \E op \in CodeOps, code \in Codes, secret \in clients :
          task' = [task EXCEPT ![p] =
                      [Idle EXCEPT
                         !.op = op, !.secret = secret, !.pc = "code",
                         !.nData = 1,
                         !.call = IF op = "createSessionFromCode"
                                  THEN exchangeCodeForSession(Appid, secret, code)
                                  ELSE exchangeCodeForToken(Appid, secret, code)]]
    /\ started' = started + 1
    /\ UNCHANGED <<clients, probe, store, now>>

\* the remote answers the exchange; lines 183-186, 200-203
CodeResponse(p) ==
    LET t == task[p]
    IN  /\ t.pc = "code"
        /\ \E data \in CodeResponses :
              task' = [task EXCEPT ![p] =
                  Finished([t EXCEPT !.last = [payload |-> data]],
                           IF "openid" \in DOMAIN data
                           THEN Returned(data)
                           ELSE Thrown(createError(CodeFailed(t.op), data)))]
        /\ UNCHANGED <<clients, probe, store, now, started>>

NextCode ==
    \/ Next
    \/ \E p \in CodeCallers :
          \/ StartCode(p)
          \/ CodeResponse(p)

SpecCode == Init /\ [][NextCode]_vars

(* C26: createSessionFromCode and createTokenFromCode make exactly one
   remote call, without access token, never read, write or delete the token
   store and are never retried.  A response containing openid is returned
   unchanged (access_token and refresh_token included, nothing cached); any
   other response makes the call throw with that response attached, as the
   authorization-code error when errcode is 40029, 40163 or 42003 and as the
   generic error otherwise. *)
C26_CodeExchange ==
    /\ [](\A p \in Procs :
            task[p].op \in CodeOps
              => /\ task[p].nData = 1
                 /\ task[p].nTM = 0 /\ task[p].nCreate = 0
                 /\ task[p].nForced = 0 /\ ~task[p].isRetry
                 /\ task[p].reads = <<>>
                 /\ task[p].pc \in {"code", "done"}
                 /\ task[p].pc = "code"
                      => /\ task[p].call.request.access_token = NoToken
                         /\ task[p].call.request.method = "GET"
                 /\ task[p].pc = "done"
                      => LET d == task[p].last.payload
                             r == task[p].result
                         IN  IF "openid" \in DOMAIN d
                             THEN r = Returned(d)
                             ELSE /\ r.kind = "thrown"
                                  /\ r.error.response = d
                                  /\ Head(r.error.message)
                                        = Head(CodeFailed(task[p].op))
                                  /\ r.error.name =
                                        IF ErrcodeOf(d) \in {40029, 40163, 42003}
                                        THEN "WeixinAuthCodeError"
                                        ELSE "WeixinError")
    /\ [][\A p \in Procs :
            ((task[p].op \in CodeOps \/ task'[p].op \in CodeOps) /\ Stepped(p))
              => store' = store]_vars

\* createTokenFromCode returned the token response as it came, and the only
\* entry of the store is the client token a request had cached
C26_Witness ==
    /\ task["tok"].op = "createTokenFromCode" /\ task["tok"].pc = "done"
    /\ task["tok"].result = Returned(CodeTokenResponse)
    /\ store[StdKey].present
    /\ store[StdKey].data.access_token \in Tokens
    /\ store[StableKey] = NoEntry

(* C27: a data call that succeeds, that fails with an error code other
   than 40001, or that fails in the retried state, ends the request and
   leaves every entry of the token store as it is; only a first-attempt
   answer can start a forced refresh.  An entry of the store disappears only
   when a forced refresh deletes it or when a read finds its TTL elapsed,
   and a finished request that made no forced refresh entered the token
   manager once. *)
C27_FailedCallKeepsCache ==
    /\ [](\A p \in Procs :
            ReqDone(p)
              => /\ task[p].isRetry => task[p].nForced = 1
                 /\ (~task[p].isRetry /\ task[p].last # NoResponse)
                      => task[p].nForced = 0
                 /\ task[p].nForced = 0 => task[p].nTM <= 1)
    /\ [][/\ \A p \in Procs :
               (task[p].pc = "data" /\ Stepped(p))
                 => /\ store' = store
                    /\ task'[p].pc \in {"done", "tm_delete"}
                    /\ task'[p].pc = "tm_delete"
                         => ~task[p].isRetry /\ task'[p].force
                    /\ task[p].isRetry => task'[p].pc = "done"
          /\ \A k \in Keys :
               (store[k].present /\ ~store'[k].present)
                 => \E p \in Procs :
                       /\ Stepped(p)
                       /\ KeyOf(task[p]) = k
                       /\ \/ task[p].pc = "tm_delete" /\ task[p].force
                          \/ /\ task[p].pc = "tm_get"
                             /\ store[k].expiresAt <= now]_vars

\* a request failed with 45009 on its first attempt and the token it used
\* is still cached, unexpired
C27_Witness ==
    /\ Answered("req")
    /\ task["req"].result.kind = "thrown"
    /\ ~task["req"].isRetry
    /\ AnsweredErrcode(task["req"].op, task["req"].last, 45009)
    /\ task["req"].nForced = 0
    /\ task["req"].reads = <<"miss">>
    /\ Warm(StdKey)

\* request p ended because its forced refresh threw
RefreshFailed(p) ==
    ReqDone(p) /\ task[p].nForced = 1 /\ ~task[p].isRetry

(* C28, as stated: when the first attempt is answered with errcode 40001 and
   the creation call of the forced refresh returns an error payload, the
   request throws "Unable to get an access token." and the cache entry of
   the key is left absent. *)
C28_PlainMessageEntryAbsent ==
    \A p \in Procs :
        RefreshFailed(p)
          => /\ task[p].result.kind = "thrown"
             /\ task[p].result.error.message =
                   <<"Unable to get an access token", ".">>
             /\ store[KeyOf(task[p])] = NoEntry

(* C28, amended: when the first attempt is answered with errcode 40001 and
   the creation call of the forced refresh returns an error payload, the
   request throws the token error with the creation response attached and
   never the "Request to '<path>' is failed." error, and no second data
   call is issued.  The message is "Unable to get an access token." except
   for errcodes 40029, 40163 and 42003, where it is "Unable to get an access
   token: <phrase>." with the authorization-code error type.  The failing
   step writes nothing to the store: the entry the forced refresh deleted
   stays absent when the request is the only operation that ran on the
   client, and an entry found under the key was stored by another
   operation. *)
C28_RefreshFailureThrowsTokenError ==
    /\ [](\A p \in Procs :
            RefreshFailed(p)
              => LET r == task[p].result
                     phrase == authcodeErrorMap(ErrcodeOf(r.error.response))
                 IN  /\ r.kind = "thrown"
                     /\ r.error.response
                           \in {ErrorResponse(c) : c \in CreateErrCodes}
                     /\ r.error = createError(
                           <<"Unable to get an access token", ".">>,
                           r.error.response)
                     /\ r.error.message # RequestFailed(task[p].path)
                     /\ IF phrase = NoPhrase
                        THEN /\ r.error.name = "WeixinError"
                             /\ r.error.message =
                                   <<"Unable to get an access token", ".">>
                        ELSE /\ r.error.name = "WeixinAuthCodeError"
                             /\ r.error.message =
                                   <<"Unable to get an access token">>
                                      \o <<": ">> \o phrase \o <<".">>
                     /\ task[p].nData = 1
                     /\ task[p].nTM = 2
                     /\ task[p].last = NoResponse)
    /\ [][\A p \in Procs :
            (~RefreshFailed(p) /\ RefreshFailed(p)')
              => /\ task[p].pc = "tm_create" /\ task[p].force
                 /\ store' = store
                 /\ started = 1 => store'[KeyOf(task[p])] = NoEntry]_vars

\* the forced refresh of a request was refused with 40001: the request threw
\* the plain token error after one data call and the key has no entry
C28_Witness ==
    /\ RefreshFailed("req")
    /\ task["req"].result.kind = "thrown"
    /\ task["req"].result.error.response = ErrorResponse(InvalidCredential)
    /\ task["req"].result.error.message =
          <<"Unable to get an access token", ".">>
    /\ task["req"].nData = 1
    /\ task["req"].reads = <<"miss">>
    /\ store[StdKey] = NoEntry

\* request p has its retried data call in flight
RetriedCall(p) ==
    task[p].op \in RequestOps /\ task[p].pc = "data" /\ task[p].isRetry

(* C29, as stated: in a request with no concurrent activity on the store
   and a remote expires_in greater than 10, the access token attached to the
   retried data call is the token returned by the creation call of the
   forced refresh. *)
C29_RetryUsesRefreshedToken ==
    \A p \in Procs :
        (RetriedCall(p) /\ task[p].refreshed.expires_in > TtlMargin)
          => task[p].call.access_token = task[p].refreshed.access_token

(* C29, amended: in a request with no concurrent activity on the store, the
   retried attempt re-reads the store, where it finds the entry the forced
   refresh wrote.  If the TTL of that entry (expires_in - 10 seconds) has
   not elapsed, the token attached to the retried data call is the token
   returned by the creation call of the forced refresh; if it has elapsed,
   which a remote expires_in greater than 10 does not exclude, the read
   destroys the entry and the token comes from one more creation call.  The
   request layer always uses the standard token key and never changes the
   entry under a stable key. *)
C29_RetryRereadsStore ==
    /\ [](\A p \in Procs :
            /\ task[p].op \in RequestOps
                 => /\ KeyOf(task[p])
                         = compositeKey(Appid,
                                        Slice(task[p].secret, 0, SecretPrefixLen),
                                        FALSE)
                    /\ KeyOf(task[p])
                         # compositeKey(Appid,
                                        Slice(task[p].secret, 0, SecretPrefixLen),
                                        TRUE)
            /\ RetriedCall(p)
                 => /\ task[p].nData = 2
                    /\ IF RetryReadHit(p)
                       THEN /\ task[p].call.access_token
                                 = task[p].refreshed.access_token
                            /\ task[p].nCreate
                                 = IF task[p].reads[1] = "miss" THEN 2 ELSE 1
                       ELSE task[p].nCreate
                                 = IF task[p].reads[1] = "miss" THEN 3 ELSE 2)
    /\ [][\A p \in Procs :
            /\ (task[p].op \in RequestOps /\ Stepped(p))
                 => \A k \in Keys \ {KeyOf(task[p])} : store'[k] = store[k]
            /\ (/\ task[p].op \in RequestOps
                /\ task[p].pc = "tm_get" /\ task[p].isRetry
                /\ Stepped(p))
                 => LET e == store[KeyOf(task[p])]
                        r == task[p].refreshed
                    IN  /\ e.present
                        /\ e.data.access_token = r.access_token
                        /\ e.expiresAt
                             <= now + (r.expires_in - TtlMargin) * MsPerSecond
                        /\ IF e.expiresAt > now
                           THEN /\ task'[p].pc = "data"
                                /\ task'[p].call.access_token = r.access_token
                                /\ store' = store
                           ELSE /\ task'[p].pc = "tm_create"
                                /\ store'[KeyOf(task[p])] = NoEntry]_vars

\* the forced refresh was given another token than the first attempt used,
\* and the retried data call carries it, read back from the store
C29_Witness ==
    /\ RetriedCall("req")
    /\ RetryReadHit("req")
    /\ task["req"].refreshed.expires_in > TtlMargin
    /\ task["req"].refreshed.access_token = "t2"
    /\ task["req"].call.access_token = "t2"
    /\ store[StdKey].present
    /\ store[StdKey].data.access_token = "t2"
    /\ task["req"].nCreate = 2

\* the key a client with the given secret uses for the given kind of token
ClientKey(secret, stable) == compositeKey(Appid, secret, stable)

(* C30: for one client the cache key of the standard token and the cache
   key of the stable token are different strings, the stable key being the
   standard key followed by ':stable'; the key is a function of appid, the
   first 6 characters of secret and the kind only.  So getAccessToken and
   getStableAccessToken of the same client never read, delete or overwrite
   each other's entry: every step of an operation leaves the entries under
   all other keys as they are, and a cache hit returns the token stored
   under the operation's own key. *)
C30_KindsHaveOwnKeys ==
    /\ [](/\ \A s \in Secrets :
               /\ ClientKey(s, TRUE) = ClientKey(s, FALSE) \o <<":stable">>
               /\ ClientKey(s, TRUE) # ClientKey(s, FALSE)
               /\ \A stable \in BOOLEAN :
                     ClientKey(s, stable)
                        = ClientKey(Slice(s, 0, SecretPrefixLen), stable)
          /\ \A p \in Procs :
               task[p].op # "none"
                 => KeyOf(task[p])
                       = ClientKey(task[p].secret,
                                   task[p].op = "getStableAccessToken"))
    /\ [][\A p \in Procs :
            (task[p].op # "none" /\ Stepped(p))
              => LET own == KeyOf(task[p])
                     other == ClientKey(task[p].secret,
                                        task[p].op # "getStableAccessToken")
                 IN  /\ other # own
                     /\ store'[other] = store[other]
                     /\ \A k \in Keys \ {own} : store'[k] = store[k]
                     /\ (/\ task[p].op \in TokenOps
                         /\ task[p].pc = "tm_get"
                         /\ task'[p].pc = "done")
                          => task'[p].result
                               = Returned(store[own].data.access_token)]_vars

\* one client holds a standard token and a different stable token, each
\* under its own key, and getStableAccessToken returned the stable one
C30_Witness ==
    /\ store[StdKey].present /\ store[StableKey].present
    /\ store[StdKey].data.access_token = "t1"
    /\ store[StableKey].data.access_token = "t2"
    /\ task["tok"].op = "getStableAccessToken"
    /\ task["tok"].pc = "done"
    /\ task["tok"].result = Returned("t2")

\* expires_in values that leave no positive TTL
LowExpiresIn == 0 .. TtlMargin

\* the instants of the clock
Times == {i * MsPerSecond : i \in 0 .. MaxTime}

(* C31: when the remote answers a token creation with expires_in <= 10 the
   computed TTL is <= 0: getAccessToken still hands the token to its caller,
   but the entry it stores is expired from the moment it is written.  The
   store never serves such an entry: a read that finds it destroys it and
   the non-forced getAccessToken that made the read issues a new creation
   call, including the one made by a request's retried attempt. *)
C31_NonPositiveTtlNeverServed ==
    /\ [](/\ \A e \in LowExpiresIn, t0 \in Times, t1 \in Times :
               t0 <= t1
                 => LET s == StoreSet(store, StdKey, [access_token |-> "t1"],
                                      e - TtlMargin, t0)
                    IN  /\ e - TtlMargin <= 0
                        /\ s[StdKey].present
                        /\ s[StdKey].expiresAt <= t1
                        /\ GetTokenData(s, StdKey, t1) = NoEntry
                        /\ StoreAfterGet(s, StdKey, t1)[StdKey] = NoEntry
          /\ \A p \in Procs :
               (/\ RetriedCall(p)
                /\ task[p].refreshed.expires_in <= TtlMargin
                /\ started = 1)
                 => /\ task[p].reads = <<"miss", "miss">>
                    /\ task[p].nCreate = 3)
    /\ [][\A p \in Procs :
            LET t == task[p]
                k == KeyOf(t)
            IN  /\ (/\ t.pc = "tm_set" /\ Stepped(p)
                    /\ t.data.expires_in <= TtlMargin)
                     => /\ store'[k].present
                        /\ store'[k].data.access_token = t.data.access_token
                        /\ store'[k].expiresAt <= now
                        /\ ~Warm(k)'
                        /\ t.op \in TokenOps
                             => /\ task'[p].pc = "done"
                                /\ task'[p].result
                                     = Returned(t.data.access_token)
                        /\ (t.op \in RequestOps /\ ~t.force)
                             => \/ /\ task'[p].pc = "data"
                                   /\ task'[p].call.access_token
                                        = t.data.access_token
                                \/ /\ task'[p].pc = "done"
                                   /\ task'[p].result = Thrown(PathError)
                        /\ (t.op \in RequestOps /\ t.force)
                             => task'[p].pc = "tm_get"
                /\ (/\ t.pc = "tm_get" /\ Stepped(p)
                    /\ store[k].present /\ store[k].expiresAt <= now)
                     => /\ store'[k] = NoEntry
                        /\ task'[p].pc = "tm_create"
                        /\ task'[p].nCreate = t.nCreate + 1
                        /\ task'[p].reads = Append(t.reads, "miss")
                /\ (t.pc = "tm_get" /\ task'[p].pc # "tm_create" /\ Stepped(p))
                     => store[k].present /\ store[k].expiresAt > now]_vars

\* with no time passing and no other operation, the forced refresh of a
\* request was answered with expires_in = 10: the retried attempt did not
\* find the token in the store and its data call follows a third creation
C31_Witness ==
    /\ RetriedCall("req")
    /\ task["req"].refreshed.expires_in = 10
    /\ task["req"].reads = <<"miss", "miss">>
    /\ task["req"].nCreate = 3
    /\ started = 1
    /\ now = 0

=============================================================================
